---- MODULE Spec2Model ----
(***************************************************************************)
(* A model of `tfproviderdocs check` (command/check.go): CheckCommand.Run  *)
(* as a sequence of steps from flag parsing to the exit code, the loaders  *)
(* it calls, and the check engine it hands its options to.                 *)
(*                                                                         *)
(* Go strings are sequences of one-character strings, so that Split, Base, *)
(* HasPrefix and TrimPrefix are computed as the library computes them.     *)
(* A nil slice and an empty slice are both << >> (the code only ranges     *)
(* over them); a Go map is a record [nil, entries] whose entries are a set *)
(* of records with unique keys.                                            *)
(***************************************************************************)
EXTENDS Integers, Sequences, FiniteSets, TLC

\* ------------------------------------------------------------------ bounds

\* Longest suffix appended to a path basename or a provider source.
MaxSuffixLen == 1
\* Longest ignore-list option, in characters.
MaxIgnoreLen == 3
\* Most documents of one resource kind in a documentation tree.
MaxFiles == 2

\* ----------------------------------------------------------------- strings

EmptyString == << >>

\* Byte order of the characters the model uses (ASCII order).
CharOrder == << ",", "-", ".", "/", "C", "S", "a", "b", "d", "e", "f", "i", "m", "n", "o", "p", "r", "t", "v" >>

Rank(c) == CHOOSE i \in 1..Len(CharOrder) : CharOrder[i] = c

\* Go's string comparison a < b: bytewise lexicographic.
RECURSIVE StringLess(_, _)
StringLess(a, b) ==
    IF b = << >> THEN FALSE
    ELSE IF a = << >> THEN TRUE
    ELSE IF Head(a) = Head(b) THEN StringLess(Tail(a), Tail(b))
    ELSE Rank(Head(a)) < Rank(Head(b))

\* All strings over alphabet of length at most n.
RECURSIVE StringsUpTo(_, _)
StringsUpTo(alphabet, n) ==
    IF n = 0 THEN { << >> }
    ELSE LET shorter == StringsUpTo(alphabet, n - 1)
         IN  shorter \cup { Append(s, c) : s \in shorter, c \in alphabet }

\* strings.Split(s, sep) for a one-character separator: Split("", sep) is [""].
RECURSIVE Split(_, _)
Split(s, sep) ==
    IF \A i \in 1..Len(s) : s[i] # sep THEN << s >>
    ELSE LET i == CHOOSE j \in 1..Len(s) : s[j] = sep /\ \A k \in 1..(j - 1) : s[k] # sep
         IN  << SubSeq(s, 1, i - 1) >> \o Split(SubSeq(s, i + 1, Len(s)), sep)

\* strings.ContainsAny(s, chars)
ContainsAny(s, chars) == \E i \in 1..Len(s) : s[i] \in chars

\* strings.HasPrefix(s, prefix)
HasPrefix(s, prefix) == Len(s) >= Len(prefix) /\ SubSeq(s, 1, Len(prefix)) = prefix

\* strings.TrimPrefix(s, prefix)
TrimPrefix(s, prefix) == IF HasPrefix(s, prefix) THEN SubSeq(s, Len(prefix) + 1, Len(s)) ELSE s

\* path with its trailing slashes removed (filepath.Base's first loop).
RECURSIVE StripTrailingSlashes(_)
StripTrailingSlashes(path) ==
    IF Len(path) > 0 /\ path[Len(path)] = "/"
    THEN StripTrailingSlashes(SubSeq(path, 1, Len(path) - 1))
    ELSE path

\* filepath.Base(path) on a slash-separated system.
Base(path) ==
    IF path = << >> THEN << "." >>
    ELSE LET p == StripTrailingSlashes(path)
             slashes == { i \in 1..Len(p) : p[i] = "/" }
             last == IF slashes = {} THEN 0 ELSE CHOOSE i \in slashes : \A j \in slashes : j <= i
             rest == SubSeq(p, last + 1, Len(p))
         IN  IF rest = << >> THEN << "/" >> ELSE rest

\* The literal "terraform-provider-".
TerraformProviderPrefix == << "t", "e", "r", "r", "a", "f", "o", "r", "m", "-", "p", "r", "o", "v", "i", "d", "e", "r", "-" >>

\* Faulty variant of providerNameFromPath: the test for '.' and '/' is missing.
providerNameFromPathUnscreened(path) ==
    LET base == Base(path)
    IN  IF ~HasPrefix(base, TerraformProviderPrefix) THEN EmptyString
        ELSE TrimPrefix(base, TerraformProviderPrefix)

\* providerNameFromPath(path)
providerNameFromPath(path) ==
    LET base == Base(path)
    IN  IF ContainsAny(base, { ".", "/" }) THEN EmptyString
        ELSE IF ~HasPrefix(base, TerraformProviderPrefix) THEN EmptyString
        ELSE TrimPrefix(base, TerraformProviderPrefix)

\* providerNameFromCurrentDirectory(), the working directory being cwd.
providerNameFromCurrentDirectory(cwd) == providerNameFromPath(cwd)

\* The elements of a sequence.
Range(s) == { s[i] : i \in 1..Len(s) }

\* ----------------------------------------------------------------- loaders

\* Go's nil map.
NilMap == [nil |-> TRUE, entries |-> {}]

\* map[key]: whether the key is present, and its value.
HasKey(m, key) == \E e \in m.entries : e.key = key

Lookup(m, key) == (CHOOSE e \in m.entries : e.key = key).value

\* allowedSubcategoriesFile(path), file being what the path names: whether
\* os.Open succeeds, the lines bufio.Scanner yields before Scan returns false,
\* and whether Scan stopped on a read error rather than at the end of the file.
\* err is assigned by os.Open only; the test after the loop reads that same err.
allowedSubcategoriesFile(file) ==
    LET err == ~file.opens
    IN  IF err THEN [value |-> << >>, err |-> TRUE]
        ELSE LET allowedSubcategories == file.scanned
             IN  IF err THEN [value |-> << >>, err |-> TRUE]
                 ELSE [value |-> allowedSubcategories, err |-> FALSE]

\* providerSchemas(path): os.ReadFile, json.Unmarshal, ps.Validate.
providerSchemas(file) ==
    IF file.status = "unreadable" THEN [ps |-> [nil |-> TRUE, Schemas |-> NilMap], err |-> TRUE]
    ELSE IF file.status = "malformed" THEN [ps |-> [nil |-> TRUE, Schemas |-> NilMap], err |-> TRUE]
    ELSE IF file.status = "invalid" THEN [ps |-> [nil |-> TRUE, Schemas |-> NilMap], err |-> TRUE]
    ELSE [ps |-> [nil |-> FALSE, Schemas |-> file.Schemas], err |-> FALSE]

\* The provider entry both schema accessors select: ps.Schemas[providerSource],
\* and ps.Schemas[providerName] when that key is absent.
providerSchemasDataSources(ps, providerName, providerSource) ==
    IF ps.nil \/ ps.Schemas.nil THEN NilMap
    ELSE IF HasKey(ps.Schemas, providerSource) THEN Lookup(ps.Schemas, providerSource).DataSourceSchemas
    ELSE IF HasKey(ps.Schemas, providerName) THEN Lookup(ps.Schemas, providerName).DataSourceSchemas
    ELSE NilMap

\* Faulty variant of providerSchemasResources: the provider name is looked up first.
providerSchemasResourcesNameFirst(ps, providerName, providerSource) ==
    IF ps.nil \/ ps.Schemas.nil THEN NilMap
    ELSE IF HasKey(ps.Schemas, providerName) THEN Lookup(ps.Schemas, providerName).ResourceSchemas
    ELSE IF HasKey(ps.Schemas, providerSource) THEN Lookup(ps.Schemas, providerSource).ResourceSchemas
    ELSE NilMap

providerSchemasResources(ps, providerName, providerSource) ==
    IF ps.nil \/ ps.Schemas.nil THEN NilMap
    ELSE IF HasKey(ps.Schemas, providerSource) THEN Lookup(ps.Schemas, providerSource).ResourceSchemas
    ELSE IF HasKey(ps.Schemas, providerName) THEN Lookup(ps.Schemas, providerName).ResourceSchemas
    ELSE NilMap

\* Faulty variant of SplitOption: the empty option is split too.
SplitOptionUnguarded(v) == Split(v, ",")

\* A comma separated option as Run reads it: nil when the option is empty.
SplitOption(v) == IF v # EmptyString THEN Split(v, ",") ELSE << >>

\* ------------------------------------------------------------------ engine
\* The check package (check.NewCheck(opts).Run(directories)) as the design
\* document states it: sections 4.3 to 4.6.

ResourceTypeDataSource == "datasource"

ResourceTypeResource == "resource"

Finding(category, doc, msg, detail) ==
    [category |-> category, kind |-> doc.category, layout |-> doc.layout, id |-> doc.id,
     msg |-> msg, detail |-> detail]

\* A finding of the reconciler: it belongs to a kind, not to one file.
KindFinding(category, kind, id, msg) ==
    [category |-> category, kind |-> kind, layout |-> "", id |-> id, msg |-> msg, detail |-> << >>]

\* 4.4: subcategory required and absent, or present and not in a non-empty allowed list.
FrontMatterCheck(fm, doc) ==
    IF ~fm.set THEN {}
    ELSE IF fm.RequireSubcategory /\ ~doc.subcategory.set
    THEN { Finding("FrontMatterInvalid", doc, "subcategory required", << >>) }
    ELSE IF doc.subcategory.set /\ fm.AllowedSubcategories # << >>
            /\ doc.subcategory.value \notin Range(fm.AllowedSubcategories)
    THEN { Finding("FrontMatterInvalid", doc, "subcategory not allowed", << doc.subcategory.value >>) }
    ELSE {}

\* 4.5: runs only when enabled and a schema entry exists for the document.
ContentsCheck(contents, schemas, doc) ==
    IF ~(contents.set /\ contents.Enable) \/ schemas.nil \/ ~HasKey(schemas, doc.id) THEN {}
    ELSE LET want == Lookup(schemas, doc.id)
             got == Range(doc.attrs)
             unordered == { i \in 1..(Len(doc.attrs) - 1) : ~StringLess(doc.attrs[i], doc.attrs[i + 1]) }
         IN  { Finding("ContentsMismatch", doc, "attribute", << a >>) : a \in (want \ got) \cup (got \ want) }
             \cup (IF contents.RequireSchemaOrdering
                   THEN { Finding("OrderingViolation", doc, "order", << doc.attrs[i], doc.attrs[i + 1] >>) : i \in unordered }
                   ELSE {})

\* The options the engine applies to a document, by its layout and category.
FileOptionsOf(opts, doc) ==
    IF doc.layout = "legacy"
    THEN CASE doc.category = "datasource" -> opts.LegacyDataSourceFile
           [] doc.category = "guide" -> opts.LegacyGuideFile
           [] doc.category = "index" -> opts.LegacyIndexFile
           [] OTHER -> opts.LegacyResourceFile
    ELSE CASE doc.category = "datasource" -> opts.RegistryDataSourceFile
           [] doc.category = "guide" -> opts.RegistryGuideFile
           [] doc.category = "index" -> opts.RegistryIndexFile
           [] OTHER -> opts.RegistryResourceFile

\* 4.6: the checks of one document.
FileCheck(opts, doc) ==
    LET o == FileOptionsOf(opts, doc)
    IN  FrontMatterCheck(o.FrontMatter, doc)
        \cup ContentsCheck(o.Contents, opts.ResourceFileMismatch.Schemas, doc)

\* The identifiers of the documents of one kind, in the order the tree lists them.
RECURSIVE FilesOfKind(_, _)
FilesOfKind(docs, kind) ==
    IF docs = << >> THEN << >>
    ELSE (IF Head(docs).category = kind THEN << Head(docs).id >> ELSE << >>)
         \o FilesOfKind(Tail(docs), kind)

\* The elements of s the reconciler keeps: not in known, not ignored.
RECURSIVE Unmatched(_, _, _)
Unmatched(s, known, ignore) ==
    IF s = << >> THEN << >>
    ELSE (IF Head(s) \in known \/ Head(s) \in Range(ignore) THEN << >> ELSE << Head(s) >>)
         \o Unmatched(Tail(s), known, ignore)

\* 4.3: the reconciliation of one kind. files are the identifiers on disk in
\* enumeration order, names the schema's identifiers in the order the map
\* yields them. With no schema only duplicates are reported.
FileMismatchCheck(fmo, files, names) ==
    [duplicate |-> { files[i] : i \in { j \in 1..Len(files) : \E k \in 1..Len(files) : k # j /\ files[k] = files[j] } },
     mismatch |-> IF fmo.Schemas.nil THEN << >> ELSE Unmatched(files, Range(names), fmo.IgnoreFileMismatch),
     missing |-> IF fmo.Schemas.nil THEN << >> ELSE Unmatched(names, Range(files), fmo.IgnoreFileMissing)]

\* The findings a reconciliation reports.
FileMismatchFindings(kind, r) ==
    { KindFinding("MismatchFile", kind, id, "duplicate") : id \in r.duplicate }
    \cup { KindFinding("MismatchFile", kind, id, "extra") : id \in Range(r.mismatch) }
    \cup { KindFinding("MissingFile", kind, id, "missing") : id \in Range(r.missing) }

\* 4.5: ordering without the base contents check is rejected.
InvalidOptions(opts) ==
    \E o \in { opts.LegacyDataSourceFile, opts.LegacyGuideFile, opts.LegacyIndexFile, opts.LegacyResourceFile,
               opts.RegistryDataSourceFile, opts.RegistryGuideFile, opts.RegistryIndexFile, opts.RegistryResourceFile } :
        o.Contents.set /\ o.Contents.RequireSchemaOrdering /\ ~o.Contents.Enable

\* The identifiers of a schema map.
SchemaNames(m) == { e.key : e \in m.entries }

\* The orders in which a Go map may yield the keys in names.
Enumerations(names) ==
    { s \in [1..Cardinality(names) -> names] : \A i, j \in 1..Cardinality(names) : s[i] = s[j] => i = j }

\* 4.6: a run of the engine over the documents docs; dsNames and rNames are the
\* orders in which the two schema maps are enumerated.
CheckRun(opts, docs, dsNames, rNames) ==
    IF InvalidOptions(opts)
    THEN [invoked |-> TRUE, fatal |-> TRUE, processed |-> << >>, findings |-> {},
          dataSources |-> [duplicate |-> {}, mismatch |-> << >>, missing |-> << >>],
          resources |-> [duplicate |-> {}, mismatch |-> << >>, missing |-> << >>]]
    ELSE LET ds == FileMismatchCheck(opts.DataSourceFileMismatch, FilesOfKind(docs, ResourceTypeDataSource), dsNames)
             rs == FileMismatchCheck(opts.ResourceFileMismatch, FilesOfKind(docs, ResourceTypeResource), rNames)
             all == UNION { FileCheck(opts, docs[i]) : i \in 1..Len(docs) }
                    \cup FileMismatchFindings(ResourceTypeDataSource, ds)
                    \cup FileMismatchFindings(ResourceTypeResource, rs)
         IN  [invoked |-> TRUE, fatal |-> FALSE, processed |-> docs,
              findings |-> IF opts.IgnoreCdktfMissingFiles
                           THEN { f \in all : f.category # "MissingFile" }
                           ELSE all,
              dataSources |-> ds, resources |-> rs]

\* Run's error: a fatal error, or at least one finding.
CheckError(result) == result.fatal \/ result.findings # {}

\* --------------------------------------------------------------------- Run

VARIABLES
    input,      \* the command line: whether flags.Parse fails, the flag values, the positional arguments
    env,        \* the working directory, the documentation tree and the files the options name
    pc,         \* Run's position
    config,     \* CheckCommandConfig
    locals,     \* Run's local variables
    checkOpts,  \* the check.CheckOptions handed to the engine
    result,     \* what the engine did
    ui,         \* the messages given to c.Ui
    exit        \* Run's return value, -1 until it returns

vars == << input, env, pc, config, locals, checkOpts, result, ui, exit >>

\* var config CheckCommandConfig
ZeroConfig ==
    [AllowedGuideSubcategories |-> EmptyString, AllowedGuideSubcategoriesFile |-> EmptyString,
     AllowedResourceSubcategories |-> EmptyString, AllowedResourceSubcategoriesFile |-> EmptyString,
     EnableContentsCheck |-> FALSE, IgnoreCdktfMissingFiles |-> FALSE,
     IgnoreFileMismatchDataSources |-> EmptyString, IgnoreFileMismatchResources |-> EmptyString,
     IgnoreFileMissingDataSources |-> EmptyString, IgnoreFileMissingResources |-> EmptyString,
     Path |-> EmptyString, ProviderName |-> EmptyString, ProviderSource |-> EmptyString,
     ProvidersSchemaJson |-> EmptyString,
     RequireGuideSubcategory |-> FALSE, RequireResourceSubcategory |-> FALSE, RequireSchemaOrdering |-> FALSE]

\* Run's locals before their declarations are reached.
ZeroLocals ==
    [directories |-> << >>,
     allowedGuideSubcategories |-> << >>, allowedResourceSubcategories |-> << >>,
     ignoreFileMismatchDataSources |-> << >>, ignoreFileMismatchResources |-> << >>,
     ignoreFileMissingDataSources |-> << >>, ignoreFileMissingResources |-> << >>,
     schemaDataSources |-> NilMap, schemaResources |-> NilMap]

NoFrontMatter == [set |-> FALSE, AllowedSubcategories |-> << >>, RequireSubcategory |-> FALSE]

NoContents == [set |-> FALSE, Enable |-> FALSE, RequireSchemaOrdering |-> FALSE]

FrontMatterOptions(allowed, require) == [set |-> TRUE, AllowedSubcategories |-> allowed, RequireSubcategory |-> require]

\* Faulty variant of ContentsOptions: the ordering flag is dropped when contents checking is off.
ContentsOptionsOrderingGated(enable, ordering) ==
    [set |-> TRUE, Enable |-> enable, RequireSchemaOrdering |-> enable /\ ordering]

ContentsOptions(enable, ordering) == [set |-> TRUE, Enable |-> enable, RequireSchemaOrdering |-> ordering]

FileMismatchOptions(ignoreMismatch, ignoreMissing, name, type, schemas) ==
    [IgnoreFileMismatch |-> ignoreMismatch, IgnoreFileMissing |-> ignoreMissing,
     ProviderName |-> name, ResourceType |-> type, Schemas |-> schemas]

\* Faulty variant of DataSourceFileOptions: data-source documents get the contents options too.
DataSourceFileOptionsWithContents(c, l) ==
    [Contents |-> [set |-> TRUE, Enable |-> c.EnableContentsCheck, RequireSchemaOrdering |-> c.RequireSchemaOrdering],
     FrontMatter |-> FrontMatterOptions(l.allowedResourceSubcategories, c.RequireResourceSubcategory),
     ProviderName |-> EmptyString]

\* The data-source and guide/index file options: front matter only.
DataSourceFileOptions(c, l) ==
    [Contents |-> NoContents,
     FrontMatter |-> FrontMatterOptions(l.allowedResourceSubcategories, c.RequireResourceSubcategory),
     ProviderName |-> EmptyString]

GuideFileOptions(c, l) ==
    [Contents |-> NoContents,
     FrontMatter |-> FrontMatterOptions(l.allowedGuideSubcategories, c.RequireGuideSubcategory),
     ProviderName |-> EmptyString]

IndexFileOptions == [Contents |-> NoContents, FrontMatter |-> NoFrontMatter, ProviderName |-> EmptyString]

\* The resource file options: contents and front matter.
ResourceFileOptions(c, l) ==
    [Contents |-> ContentsOptions(c.EnableContentsCheck, c.RequireSchemaOrdering),
     FrontMatter |-> FrontMatterOptions(l.allowedResourceSubcategories, c.RequireResourceSubcategory),
     ProviderName |-> c.ProviderName]

\* Faulty variant of DataSourceFileMismatch: the two ignore lists change places.
DataSourceFileMismatchSwapped(c, l) ==
    FileMismatchOptions(l.ignoreFileMissingDataSources, l.ignoreFileMismatchDataSources,
                        c.ProviderName, ResourceTypeDataSource, l.schemaDataSources)

DataSourceFileMismatch(c, l) ==
    FileMismatchOptions(l.ignoreFileMismatchDataSources, l.ignoreFileMissingDataSources,
                        c.ProviderName, ResourceTypeDataSource, l.schemaDataSources)

ResourceFileMismatch(c, l) ==
    FileMismatchOptions(l.ignoreFileMismatchResources, l.ignoreFileMissingResources,
                        c.ProviderName, ResourceTypeResource, l.schemaResources)

\* Faulty variant of IgnoreCdktfMissingFiles: the option is never handed on.
IgnoreCdktfMissingFilesDropped(c) == FALSE

\* IgnoreCdktfMissingFiles: config.IgnoreCdktfMissingFiles
IgnoreCdktfMissingFiles(c) == c.IgnoreCdktfMissingFiles

\* checkOpts := &check.CheckOptions{...}
CheckOptions(c, l) ==
    [DataSourceFileMismatch |-> DataSourceFileMismatch(c, l),
     LegacyDataSourceFile |-> DataSourceFileOptions(c, l),
     LegacyGuideFile |-> GuideFileOptions(c, l),
     LegacyIndexFile |-> IndexFileOptions,
     LegacyResourceFile |-> ResourceFileOptions(c, l),
     ProviderName |-> c.ProviderName,
     ProviderSource |-> c.ProviderSource,
     RegistryDataSourceFile |-> DataSourceFileOptions(c, l),
     RegistryGuideFile |-> GuideFileOptions(c, l),
     RegistryIndexFile |-> IndexFileOptions,
     RegistryResourceFile |-> ResourceFileOptions(c, l),
     ResourceFileMismatch |-> ResourceFileMismatch(c, l),
     IgnoreCdktfMissingFiles |-> IgnoreCdktfMissingFiles(c)]

NotRun ==
    [invoked |-> FALSE, fatal |-> FALSE, processed |-> << >>, findings |-> {},
     dataSources |-> [duplicate |-> {}, mismatch |-> << >>, missing |-> << >>],
     resources |-> [duplicate |-> {}, mismatch |-> << >>, missing |-> << >>]]

\* ------------------------------------------------------------------ inputs
\* The command lines and environments a run is started in.

Doc(category, layout, id, subcategory, attrs) ==
    [category |-> category, layout |-> layout, id |-> id, subcategory |-> subcategory, attrs |-> attrs]

NoSubcategory == [set |-> FALSE, value |-> EmptyString]

Subcategory(v) == [set |-> TRUE, value |-> v]

\* A schema map whose entries are the identifiers in names, each with attributes attrs.
SchemaMap(names, attrs) == [nil |-> FALSE, entries |-> { [key |-> n, value |-> attrs] : n \in names }]

Provider(resources, dataSources) == [ResourceSchemas |-> resources, DataSourceSchemas |-> dataSources]

\* A providers schema file that reads, parses and validates.
SchemaFile(schemas) == [status |-> "ok", Schemas |-> schemas]

\* A subcategories file that opens and is read to its end.
LinesFile(lines) == [opens |-> TRUE, scanned |-> lines, scanErr |-> FALSE]

Ids == { << "a" >>, << "b" >> }

SampleAttrs == { << "i" >>, << "n" >> }

\* A tree with one document of every category and both layouts.
SampleTree ==
    << Doc("guide", "legacy", << "a" >>, NoSubcategory, << >>),
       Doc("index", "registry", << "i" >>, NoSubcategory, << >>),
       Doc("resource", "registry", << "a" >>, Subcategory(<< "C" >>), << << "n" >>, << "i" >> >>),
       Doc("resource", "legacy", << "b" >>, Subcategory(<< "S" >>), << << "i" >> >>),
       Doc("datasource", "legacy", << "a" >>, NoSubcategory, << << "n" >>, << "i" >> >>) >>

\* A tree that yields no finding under any option.
CleanTree ==
    << Doc("index", "registry", << "i" >>, NoSubcategory, << >>),
       Doc("resource", "registry", << "a" >>, Subcategory(<< "C" >>), << << "i" >>, << "n" >> >>),
       Doc("datasource", "registry", << "b" >>, Subcategory(<< "C" >>), << >>) >>

SampleProvider == Provider(SchemaMap(Ids, SampleAttrs), SchemaMap({ << "b" >> }, SampleAttrs))

CleanProvider == Provider(SchemaMap({ << "a" >> }, SampleAttrs), SchemaMap({ << "b" >> }, SampleAttrs))

SampleSchemas == [nil |-> FALSE, entries |-> { [key |-> << "a" >>, value |-> SampleProvider] }]

DefaultEnv ==
    [cwd |-> << "/" >> \o TerraformProviderPrefix \o << "a" >>,
     directories |-> [err |-> FALSE, docs |-> SampleTree],
     guideFile |-> LinesFile(<< << "C" >> >>),
     resourceFile |-> LinesFile(<< << "C" >>, << "S" >> >>),
     schemaFile |-> SchemaFile(SampleSchemas)]

DefaultInput == [parseErr |-> FALSE, flags |-> ZeroConfig, args |-> << >>]

\* A file path an option names; what it holds is in env.
SomePath == << "f" >>

\* --- provider names: the name, the source and the path or the working directory vary.
PathSuffixes == StringsUpTo({ "a", ".", "/" }, MaxSuffixLen)

Paths ==
    { d \o p \o s : d \in { << >>, << "a", "/" >> },
                    p \in { << >>, TerraformProviderPrefix, << "t" >> },
                    s \in PathSuffixes }

Sources == StringsUpTo({ "/", "a", "b" }, MaxSuffixLen + 1)

WorkingDirectories == { << "/" >>, << "/" >> \o TerraformProviderPrefix \o << "b" >>, << "/", "a" >> }

StartNames ==
    \E n \in { EmptyString, << "a" >> }, src \in Sources, json \in { EmptyString, SomePath }, contents \in BOOLEAN :
    \E a \in { << << >>, DefaultEnv.cwd >> }
             \cup { << << p >>, DefaultEnv.cwd >> : p \in Paths }
             \cup { << << TerraformProviderPrefix \o << "a" >>, << "b" >> >>, DefaultEnv.cwd >> }
             \cup { << << >>, cwd >> : cwd \in WorkingDirectories } :
        /\ input = [DefaultInput EXCEPT !.flags.ProviderName = n, !.flags.ProviderSource = src,
                                        !.flags.ProvidersSchemaJson = json, !.flags.EnableContentsCheck = contents,
                                        !.args = a[1]]
        /\ env = [DefaultEnv EXCEPT !.cwd = a[2]]

\* --- schema lookup: the keys of the schema input vary.
KeyedProvider(key) ==
    CASE key = << "h", "/", "a" >> -> Provider(SchemaMap({ << "a" >> }, SampleAttrs), SchemaMap({ << "b" >> }, SampleAttrs))
      [] key = << "a" >> -> Provider(SchemaMap({ << "b" >> }, SampleAttrs), SchemaMap({ << "a" >> }, SampleAttrs))
      [] OTHER -> Provider(SchemaMap(Ids, SampleAttrs), NilMap)

StartSchemas ==
    \E n \in { EmptyString, << "a" >>, << "b" >> },
       src \in { EmptyString, << "h", "/", "a" >>, << "b" >> },
       schemas \in { NilMap } \cup
                   { [nil |-> FALSE, entries |-> { [key |-> k, value |-> KeyedProvider(k)] : k \in keys }] :
                     keys \in SUBSET { << "h", "/", "a" >>, << "a" >>, << "b" >> } } :
        /\ input = [DefaultInput EXCEPT !.flags.ProviderName = n, !.flags.ProviderSource = src,
                                        !.flags.ProvidersSchemaJson = SomePath]
        /\ env = [DefaultEnv EXCEPT !.schemaFile = SchemaFile(schemas)]

\* --- reconciliation: the files, the schema and one ignore list of one kind
\* vary; the other kind has one extra file and one missing file.
IgnoreOptions == StringsUpTo({ ",", "a", "b" }, MaxIgnoreLen)

FileLists == StringsUpTo(Ids, MaxFiles)

KindSchemas == { NilMap } \cup { SchemaMap(names, SampleAttrs) : names \in SUBSET Ids }

KindDocs(kind, files) == [i \in 1..Len(files) |-> Doc(kind, "registry", files[i], NoSubcategory, << >>)]

IgnorePairs ==
    { << m, << "a" >> >> : m \in IgnoreOptions } \cup { << << "b" >>, i >> : i \in IgnoreOptions }

StartReconcile ==
    \E ds \in BOOLEAN, ig \in IgnorePairs, files \in FileLists, schema \in KindSchemas :
        /\ input = [DefaultInput EXCEPT !.flags.ProviderName = << "a" >>, !.flags.ProvidersSchemaJson = SomePath,
                                        !.flags.IgnoreFileMismatchDataSources = IF ds THEN ig[1] ELSE EmptyString,
                                        !.flags.IgnoreFileMissingDataSources = IF ds THEN ig[2] ELSE EmptyString,
                                        !.flags.IgnoreFileMismatchResources = IF ds THEN EmptyString ELSE ig[1],
                                        !.flags.IgnoreFileMissingResources = IF ds THEN EmptyString ELSE ig[2]]
        /\ env = [DefaultEnv EXCEPT
                    !.directories.docs =
                        << Doc("index", "registry", << "i" >>, NoSubcategory, << >>) >>
                        \o KindDocs(ResourceTypeDataSource, IF ds THEN files ELSE << << "a" >> >>)
                        \o KindDocs(ResourceTypeResource, IF ds THEN << << "a" >> >> ELSE files),
                    !.schemaFile = SchemaFile([nil |-> FALSE, entries |-> { [key |-> << "a" >>, value |->
                        IF ds THEN Provider(SchemaMap({ << "b" >> }, SampleAttrs), schema)
                              ELSE Provider(schema, SchemaMap({ << "b" >> }, SampleAttrs))] }])]

\* --- options: the boolean options and the subcategory lists vary.
StartOptions ==
    \E json \in { EmptyString, SomePath }, contents \in BOOLEAN, ordering \in BOOLEAN, cdktf \in BOOLEAN,
       rg \in BOOLEAN, rr \in BOOLEAN,
       ag \in { EmptyString, << "C" >> }, ar \in { EmptyString, << "C" >>, << "C", ",", "S" >> },
       tree \in { SampleTree, CleanTree }, prov \in { SampleProvider, CleanProvider } :
        /\ input = [DefaultInput EXCEPT !.flags.ProviderName = << "a" >>, !.flags.ProvidersSchemaJson = json,
                                        !.flags.EnableContentsCheck = contents, !.flags.RequireSchemaOrdering = ordering,
                                        !.flags.IgnoreCdktfMissingFiles = cdktf,
                                        !.flags.RequireGuideSubcategory = rg, !.flags.RequireResourceSubcategory = rr,
                                        !.flags.AllowedGuideSubcategories = ag, !.flags.AllowedResourceSubcategories = ar]
        /\ env = [DefaultEnv EXCEPT !.directories.docs = tree,
                                    !.schemaFile = SchemaFile([nil |-> FALSE, entries |-> { [key |-> << "a" >>, value |-> prov] }])]

\* --- failures: flag parsing, the documentation tree and the input files fail.
SubcategoryFiles ==
    { LinesFile(<< << "C" >>, << "S" >> >>),
      [opens |-> FALSE, scanned |-> << >>, scanErr |-> FALSE],
      [opens |-> TRUE, scanned |-> << << "C" >> >>, scanErr |-> TRUE],
      [opens |-> TRUE, scanned |-> << >>, scanErr |-> TRUE] }

SchemaFiles ==
    { SchemaFile(SampleSchemas) }
    \cup { [status |-> st, Schemas |-> NilMap] : st \in { "unreadable", "malformed", "invalid" } }

StartFailures ==
    \E parseErr \in BOOLEAN, gp \in { EmptyString, SomePath }, rp \in { EmptyString, SomePath },
       json \in { EmptyString, SomePath },
       dirs \in { [err |-> TRUE, docs |-> << >>], [err |-> FALSE, docs |-> << >>],
                  [err |-> FALSE, docs |-> SampleTree], [err |-> FALSE, docs |-> CleanTree] },
       gf \in SubcategoryFiles, rf \in SubcategoryFiles, sf \in SchemaFiles :
        /\ input = [DefaultInput EXCEPT !.parseErr = parseErr, !.flags.ProviderName = << "a" >>,
                                        !.flags.AllowedGuideSubcategoriesFile = gp,
                                        !.flags.AllowedResourceSubcategoriesFile = rp,
                                        !.flags.AllowedResourceSubcategories = << "S" >>,
                                        !.flags.ProvidersSchemaJson = json]
        /\ env = [DefaultEnv EXCEPT !.directories = dirs, !.guideFile = gf, !.resourceFile = rf, !.schemaFile = sf]

\* return 1 after c.Ui.Error(msg) (or flags.Usage()).
Fail(msg) ==
    /\ ui' = Append(ui, msg)
    /\ exit' = 1
    /\ pc' = "done"

\* flags.Parse(args); args = flags.Args(); config.Path
ParseFlags ==
    /\ pc = "parse"
    /\ IF input.parseErr
       THEN Fail("usage") /\ UNCHANGED config
       ELSE /\ config' = [input.flags EXCEPT !.Path = IF Len(input.args) = 1 THEN input.args[1] ELSE EmptyString]
            /\ pc' = "name"
            /\ UNCHANGED << ui, exit >>
    /\ UNCHANGED << input, env, locals, checkOpts, result >>

\* Faulty variant of ResolvedProviderName: a given source ends the resolution, also
\* when its last segment is empty.
ResolvedProviderNameSourceFinal(c, cwd) ==
    IF c.ProviderName # EmptyString THEN c.ProviderName
    ELSE IF c.ProviderSource # EmptyString
    THEN Split(c.ProviderSource, "/")[Len(Split(c.ProviderSource, "/"))]
    ELSE IF c.Path = EmptyString
    THEN providerNameFromCurrentDirectory(cwd)
    ELSE providerNameFromPath(c.Path)

\* config.ProviderName after the two fallbacks.
ResolvedProviderName(c, cwd) ==
    LET fromSource == IF c.ProviderName = EmptyString /\ c.ProviderSource # EmptyString
                      THEN LET providerSourceParts == Split(c.ProviderSource, "/")
                           IN  providerSourceParts[Len(providerSourceParts)]
                      ELSE c.ProviderName
    IN  IF fromSource = EmptyString
        THEN IF c.Path = EmptyString
             THEN providerNameFromCurrentDirectory(cwd)
             ELSE providerNameFromPath(c.Path)
        ELSE fromSource

ResolveProviderName ==
    /\ pc = "name"
    /\ config' = [config EXCEPT !.ProviderName = ResolvedProviderName(config, env.cwd)]
    /\ pc' = "directories"
    /\ UNCHANGED << input, env, locals, checkOpts, result, ui, exit >>

\* check.GetDirectories(config.Path) and the two tests that follow it.
GetDirectories ==
    /\ pc = "directories"
    /\ IF env.directories.err
       THEN Fail("Error getting Terraform Provider documentation directories") /\ UNCHANGED locals
       ELSE IF Len(env.directories.docs) = 0
       THEN Fail("No Terraform Provider documentation directories found") /\ UNCHANGED locals
       ELSE /\ locals' = [locals EXCEPT !.directories = env.directories.docs]
            /\ pc' = "subcategories"
            /\ UNCHANGED << ui, exit >>
    /\ UNCHANGED << input, env, config, checkOpts, result >>

\* allowedGuideSubcategories / allowedResourceSubcategories: the option, then the file.
AllowedSubcategories(option, path, file) ==
    IF path # EmptyString
    THEN allowedSubcategoriesFile(file)
    ELSE [value |-> SplitOption(option), err |-> FALSE]

LoadAllowedSubcategories ==
    /\ pc = "subcategories"
    /\ LET guide == AllowedSubcategories(config.AllowedGuideSubcategories, config.AllowedGuideSubcategoriesFile, env.guideFile)
           resource == AllowedSubcategories(config.AllowedResourceSubcategories, config.AllowedResourceSubcategoriesFile, env.resourceFile)
       IN  IF guide.err
           THEN Fail("Error getting allowed guide subcategories") /\ UNCHANGED locals
           ELSE IF resource.err
           THEN /\ Fail("Error getting allowed resource subcategories")
                /\ locals' = [locals EXCEPT !.allowedGuideSubcategories = guide.value]
           ELSE /\ locals' = [locals EXCEPT !.allowedGuideSubcategories = guide.value,
                                            !.allowedResourceSubcategories = resource.value]
                /\ pc' = "ignore"
                /\ UNCHANGED << ui, exit >>
    /\ UNCHANGED << input, env, config, checkOpts, result >>

\* The four ignore lists.
SplitIgnoreLists ==
    /\ pc = "ignore"
    /\ locals' = [locals EXCEPT !.ignoreFileMismatchDataSources = SplitOption(config.IgnoreFileMismatchDataSources),
                                !.ignoreFileMismatchResources = SplitOption(config.IgnoreFileMismatchResources),
                                !.ignoreFileMissingDataSources = SplitOption(config.IgnoreFileMissingDataSources),
                                !.ignoreFileMissingResources = SplitOption(config.IgnoreFileMissingResources)]
    /\ pc' = "schema"
    /\ UNCHANGED << input, env, config, checkOpts, result, ui, exit >>

\* if config.ProvidersSchemaJson != "" { ... }
LoadProviderSchemas ==
    /\ pc = "schema"
    /\ IF config.ProvidersSchemaJson # EmptyString
       THEN LET loaded == providerSchemas(env.schemaFile)
            IN  IF loaded.err
                THEN Fail("Error enabling Terraform Provider schema checks") /\ UNCHANGED locals
                ELSE IF config.ProviderName = EmptyString
                THEN Fail("Unknown provider name for enabling Terraform Provider schema checks") /\ UNCHANGED locals
                ELSE /\ locals' = [locals EXCEPT
                            !.schemaDataSources = providerSchemasDataSources(loaded.ps, config.ProviderName, config.ProviderSource),
                            !.schemaResources = providerSchemasResources(loaded.ps, config.ProviderName, config.ProviderSource)]
                     /\ pc' = "options"
                     /\ UNCHANGED << ui, exit >>
       ELSE /\ pc' = "options"
            /\ UNCHANGED << locals, ui, exit >>
    /\ UNCHANGED << input, env, config, checkOpts, result >>

BuildCheckOptions ==
    /\ pc = "options"
    /\ checkOpts' = CheckOptions(config, locals)
    /\ pc' = "check"
    /\ UNCHANGED << input, env, config, locals, result, ui, exit >>

\* Faulty variant of ExitCode: only a fatal engine error fails the run.
ExitCodeIgnoringFindings(r) == IF r.fatal THEN 1 ELSE 0

\* Run's return value after check.NewCheck(checkOpts).Run(directories).
ExitCode(r) == IF CheckError(r) THEN 1 ELSE 0

\* check.NewCheck(checkOpts).Run(directories) and the return.
RunCheck ==
    /\ pc = "check"
    /\ \E dsNames \in Enumerations(SchemaNames(checkOpts.DataSourceFileMismatch.Schemas)),
          rNames \in Enumerations(SchemaNames(checkOpts.ResourceFileMismatch.Schemas)) :
          /\ result' = CheckRun(checkOpts, locals.directories, dsNames, rNames)
          /\ exit' = ExitCode(result')
          /\ ui' = IF CheckError(result') THEN Append(ui, "Error checking Terraform Provider documentation") ELSE ui
    /\ pc' = "done"
    /\ UNCHANGED << input, env, config, locals, checkOpts >>

Next ==
    \/ ParseFlags
    \/ ResolveProviderName
    \/ GetDirectories
    \/ LoadAllowedSubcategories
    \/ SplitIgnoreLists
    \/ LoadProviderSchemas
    \/ BuildCheckOptions
    \/ RunCheck

Init ==
    /\ StartNames \/ StartSchemas \/ StartReconcile \/ StartOptions \/ StartFailures
    /\ pc = "parse"
    /\ config = ZeroConfig
    /\ locals = ZeroLocals
    /\ checkOpts = CheckOptions(ZeroConfig, ZeroLocals)
    /\ result = NotRun
    /\ ui = << >>
    /\ exit = -1

Spec == Init /\ [][Next]_vars

\* ------------------------------------------------------------------ claims

Done == pc = "done"

\* Run handed its options to the engine and the engine accepted them.
Checked == result.invoked /\ ~result.fatal

\* The messages of Run's own failures (all but the engine's error).
FatalMessages ==
    { "usage",
      "Error getting Terraform Provider documentation directories",
      "No Terraform Provider documentation directories found",
      "Error getting allowed guide subcategories",
      "Error getting allowed resource subcategories",
      "Error enabling Terraform Provider schema checks",
      "Unknown provider name for enabling Terraform Provider schema checks" }

FatalReported == result.fatal \/ \E i \in 1..Len(ui) : ui[i] \in FatalMessages

\* C1: Run returns 0 or 1, and 1 exactly when a fatal error was reported or the
\* engine's result holds a finding; a run that reaches the engine and yields
\* no finding returns 0; before it returns there is no exit code.
ExitCodeContract ==
    /\ ~Done => exit = -1
    /\ Done => /\ exit \in { 0, 1 }
               /\ exit = 1 <=> (FatalReported \/ result.findings # {})
               /\ (Checked /\ result.findings = {}) => exit = 0
               /\ ~result.invoked => FatalReported

ExitCodeWitness == Done /\ exit = 1 /\ Checked /\ result.findings # {} /\ ~FatalReported

\* The command line asks for the ordering rule without the contents check.
OrderingWithoutContents == input.flags.RequireSchemaOrdering /\ ~input.flags.EnableContentsCheck

IgnoreSet(v) ==
    IF v = EmptyString THEN {}
    ELSE { SubSeq(v, i, j) : << i, j >> \in
             { << a, b >> \in (1..(Len(v) + 1)) \X (0..Len(v)) :
                 /\ b >= a - 1
                 /\ \A k \in a..b : v[k] # ","
                 /\ (a = 1 \/ v[a - 1] = ",")
                 /\ (b = Len(v) \/ v[b + 1] = ",") } }

\* The identifiers on disk of one kind.
OnDisk(kind) == { d.id : d \in { x \in Range(env.directories.docs) : x.category = kind } }

\* No two documents of the kind share an identifier.
NoDuplicates(kind) ==
    \A i, j \in 1..Len(env.directories.docs) :
        (env.directories.docs[i].category = kind /\ env.directories.docs[j].category = kind
         /\ env.directories.docs[i].id = env.directories.docs[j].id) => i = j

MismatchFileIds(kind) == { f.id : f \in { x \in FileMismatchFindings(kind, IF kind = ResourceTypeResource THEN result.resources ELSE result.dataSources) : x.category = "MismatchFile" } }

MissingFileIds(kind) == { f.id : f \in { x \in FileMismatchFindings(kind, IF kind = ResourceTypeResource THEN result.resources ELSE result.dataSources) : x.category = "MissingFile" } }

\* C3: for identifier sets D on disk and S in the schema of one kind, the
\* reconciler reports MismatchFile exactly for (D \ S) \ Im and MissingFile
\* exactly for (S \ D) \ Ii, whatever the order the files and the schema's
\* names are enumerated in.
ReconcilerSetDifference ==
    Checked =>
        /\ (~locals.schemaDataSources.nil /\ NoDuplicates(ResourceTypeDataSource)) =>
              /\ MismatchFileIds(ResourceTypeDataSource)
                   = (OnDisk(ResourceTypeDataSource) \ SchemaNames(locals.schemaDataSources))
                     \ IgnoreSet(input.flags.IgnoreFileMismatchDataSources)
              /\ MissingFileIds(ResourceTypeDataSource)
                   = (SchemaNames(locals.schemaDataSources) \ OnDisk(ResourceTypeDataSource))
                     \ IgnoreSet(input.flags.IgnoreFileMissingDataSources)
        /\ (~locals.schemaResources.nil /\ NoDuplicates(ResourceTypeResource)) =>
              /\ MismatchFileIds(ResourceTypeResource)
                   = (OnDisk(ResourceTypeResource) \ SchemaNames(locals.schemaResources))
                     \ IgnoreSet(input.flags.IgnoreFileMismatchResources)
              /\ MissingFileIds(ResourceTypeResource)
                   = (SchemaNames(locals.schemaResources) \ OnDisk(ResourceTypeResource))
                     \ IgnoreSet(input.flags.IgnoreFileMissingResources)

\* Two files and two schema names, partly ignored, enumerated in descending order.
ReconcilerWitness ==
    /\ Checked
    /\ ~locals.schemaDataSources.nil
    /\ NoDuplicates(ResourceTypeDataSource)
    /\ OnDisk(ResourceTypeDataSource) = { << "a" >> }
    /\ SchemaNames(locals.schemaDataSources) = { << "b" >> }
    /\ input.flags.IgnoreFileMismatchDataSources = << "b", ",", "a" >>
    /\ MissingFileIds(ResourceTypeDataSource) = { << "b" >> }
    /\ MismatchFileIds(ResourceTypeDataSource) = {}
    /\ MismatchFileIds(ResourceTypeResource) = { << "a" >> }

\* One order in which a map may yield the keys in names.
AnyEnumeration(names) == CHOOSE e \in Enumerations(names) : TRUE

\* The engine's result on Run's documents under other options.
CheckRunWith(opts) ==
    CheckRun(opts, locals.directories,
             AnyEnumeration(SchemaNames(opts.DataSourceFileMismatch.Schemas)),
             AnyEnumeration(SchemaNames(opts.ResourceFileMismatch.Schemas)))

LastSegment(src) ==
    LET slashes == { i \in 1..Len(src) : src[i] = "/" }
        k == IF slashes = {} THEN 0 ELSE CHOOSE i \in slashes : \A j \in slashes : j <= i
    IN  SubSeq(src, k + 1, Len(src))

\* The name a basename stands for: what follows 'terraform-provider-', and
\* nothing when the prefix is missing or the basename holds '.' or '/'.
DerivedName(p) ==
    LET b == Base(p)
        n == Len(TerraformProviderPrefix)
    IN  IF \E i \in 1..Len(b) : b[i] = "." \/ b[i] = "/" THEN EmptyString
        ELSE IF Len(b) >= n /\ \A i \in 1..n : b[i] = TerraformProviderPrefix[i]
        THEN SubSeq(b, n + 1, Len(b))
        ELSE EmptyString

\* A path is given: exactly one positional argument, not empty.
PathGiven == Len(input.args) = 1 /\ input.args[1] # EmptyString

\* The provider name by precedence: the name, the source's last segment, the basename.
SpecifiedName ==
    IF input.flags.ProviderName # EmptyString THEN input.flags.ProviderName
    ELSE IF input.flags.ProviderSource # EmptyString /\ LastSegment(input.flags.ProviderSource) # EmptyString
    THEN LastSegment(input.flags.ProviderSource)
    ELSE DerivedName(IF PathGiven THEN input.args[1] ELSE env.cwd)

Unresolved == SpecifiedName = EmptyString

NoEngineAndFatal == ~result.invoked /\ (Done => (exit = 1 /\ FatalReported))

\* C5 as stated: with schema or contents checks requested and the provider name
\* unresolved, Run reports a fatal error and returns 1 without invoking the engine.
UnresolvedEnhancedIsFatal ==
    ((input.flags.ProvidersSchemaJson # EmptyString \/ input.flags.EnableContentsCheck) /\ Unresolved)
        => NoEngineAndFatal

\* C5 as amended: with a providers schema JSON given and the provider name
\* unresolved, Run reports a fatal error and returns 1 without invoking the engine.
UnresolvedSchemaIsFatal ==
    (input.flags.ProvidersSchemaJson # EmptyString /\ Unresolved) => NoEngineAndFatal

UnresolvedSchemaWitness ==
    /\ Done
    /\ input.flags.ProvidersSchemaJson # EmptyString
    /\ Unresolved
    /\ input.flags.ProviderSource # EmptyString
    /\ ui = << "Unknown provider name for enabling Terraform Provider schema checks" >>

\* C6: a failure to open or read a subcategories file that an option names, or
\* to read, parse or validate the providers schema JSON, makes Run return 1
\* without invoking the engine.
InputFileFailureIsFatal ==
    LET guideFails == input.flags.AllowedGuideSubcategoriesFile # EmptyString
                      /\ (~env.guideFile.opens \/ env.guideFile.scanErr)
        resourceFails == input.flags.AllowedResourceSubcategoriesFile # EmptyString
                         /\ (~env.resourceFile.opens \/ env.resourceFile.scanErr)
        schemaFails == input.flags.ProvidersSchemaJson # EmptyString /\ env.schemaFile.status # "ok"
    IN  (guideFails \/ resourceFails \/ schemaFails) => (~result.invoked /\ (Done => exit = 1))

\* Run is past the resolution of the provider name.
NameResolved == pc \notin { "parse", "name" } /\ ~input.parseErr

\* C7: the provider name of a run is the given name; else the last segment of
\* the source; else, also when that segment is empty, the name the basename of
\* the given path (of the working directory when none is given) stands for.
ProviderNamePrecedence == NameResolved => config.ProviderName = SpecifiedName

\* The source ends in '/', so the name comes from the given path.
ProviderNameWitness ==
    /\ NameResolved
    /\ input.flags.ProviderName = EmptyString
    /\ input.flags.ProviderSource # EmptyString
    /\ LastSegment(input.flags.ProviderSource) = EmptyString
    /\ PathGiven
    /\ config.ProviderName = << "a" >>

\* Run is past the loading of the providers schema JSON it was given.
SchemaLoaded ==
    /\ config.ProvidersSchemaJson # EmptyString
    /\ pc \in { "options", "check" } \/ (Done /\ result.invoked)

\* C8: the provider entry is the one keyed by the source, else the one keyed by
\* the name; both maps come from that entry; with neither key both are nil and
\* the run goes on to the engine without a schema.
SchemaLookupPrecedence ==
    /\ SchemaLoaded =>
        LET S == env.schemaFile.Schemas
            src == config.ProviderSource
            name == config.ProviderName
        IN  IF ~S.nil /\ HasKey(S, src)
            THEN /\ locals.schemaResources = Lookup(S, src).ResourceSchemas
                 /\ locals.schemaDataSources = Lookup(S, src).DataSourceSchemas
            ELSE IF ~S.nil /\ HasKey(S, name)
            THEN /\ locals.schemaResources = Lookup(S, name).ResourceSchemas
                 /\ locals.schemaDataSources = Lookup(S, name).DataSourceSchemas
            ELSE /\ locals.schemaResources = NilMap
                 /\ locals.schemaDataSources = NilMap
    /\ (Done /\ config.ProvidersSchemaJson # EmptyString /\ env.schemaFile.status = "ok"
        /\ config.ProviderName # EmptyString)
        => \A i \in 1..Len(ui) : ui[i] \notin { "Error enabling Terraform Provider schema checks",
                                               "Unknown provider name for enabling Terraform Provider schema checks" }
    /\ result.invoked =>
        /\ checkOpts.ResourceFileMismatch.Schemas = locals.schemaResources
        /\ checkOpts.DataSourceFileMismatch.Schemas = locals.schemaDataSources

\* The source is absent from the schema input and the name is present.
SchemaLookupWitness ==
    /\ Done
    /\ SchemaLoaded
    /\ config.ProviderSource # EmptyString
    /\ ~HasKey(env.schemaFile.Schemas, config.ProviderSource)
    /\ HasKey(env.schemaFile.Schemas, config.ProviderName)
    /\ HasKey(env.schemaFile.Schemas, << "h", "/", "a" >>)
    /\ ~locals.schemaResources.nil

\* Run has built the engine's options.
OptionsBuilt == pc = "check" \/ (Done /\ result.invoked)

ContentsAsConfigured(o) ==
    /\ o.Contents.set
    /\ o.Contents.Enable = config.EnableContentsCheck
    /\ o.Contents.RequireSchemaOrdering = config.RequireSchemaOrdering

\* C9 as stated: the contents check is configured, as enableContentsCheck and
\* requireSchemaOrdering say, for resource and data-source documents of both
\* layouts, and never for guide and index documents.
ContentsForResourcesAndDataSources ==
    OptionsBuilt =>
        /\ \A o \in { checkOpts.LegacyResourceFile, checkOpts.RegistryResourceFile,
                      checkOpts.LegacyDataSourceFile, checkOpts.RegistryDataSourceFile } :
              IF config.EnableContentsCheck THEN ContentsAsConfigured(o) ELSE ~(o.Contents.set /\ o.Contents.Enable)
        /\ \A o \in { checkOpts.LegacyGuideFile, checkOpts.RegistryGuideFile,
                      checkOpts.LegacyIndexFile, checkOpts.RegistryIndexFile } : ~o.Contents.set

\* C9 as amended: the contents check is configured, as enableContentsCheck and
\* requireSchemaOrdering say, for resource documents of both layouts, and never
\* for data-source, guide and index documents, which get no contents finding.
ContentsForResourcesOnly ==
    /\ OptionsBuilt =>
        /\ \A o \in { checkOpts.LegacyResourceFile, checkOpts.RegistryResourceFile } :
              IF config.EnableContentsCheck THEN ContentsAsConfigured(o) ELSE ~(o.Contents.set /\ o.Contents.Enable)
        /\ \A o \in { checkOpts.LegacyDataSourceFile, checkOpts.RegistryDataSourceFile,
                      checkOpts.LegacyGuideFile, checkOpts.RegistryGuideFile,
                      checkOpts.LegacyIndexFile, checkOpts.RegistryIndexFile } : ~o.Contents.set
    /\ \A f \in result.findings :
          f.category \in { "ContentsMismatch", "OrderingViolation" }
              => (f.kind = ResourceTypeResource /\ config.EnableContentsCheck)

\* Contents findings on resource documents of both layouts, beside a data-source
\* document whose attributes are out of order.
ContentsWitness ==
    /\ Done
    /\ Checked
    /\ config.EnableContentsCheck
    /\ \E f \in result.findings : f.category = "ContentsMismatch" /\ f.layout = "legacy"
    /\ \E f \in result.findings : f.category = "OrderingViolation" /\ f.layout = "registry"
    /\ \E i \in 1..Len(locals.directories) :
          /\ locals.directories[i].category = ResourceTypeDataSource
          /\ locals.directories[i].attrs = << << "n" >>, << "i" >> >>

\* Run is past the splitting of the ignore options.
ListsSplit == pc \in { "schema", "options", "check" } \/ (Done /\ result.invoked)

\* The ignore option that names the identifiers a reconciler finding may be ignored by.
IgnoreOptionOf(f) ==
    IF f.kind = ResourceTypeDataSource
    THEN IF f.category = "MismatchFile" THEN input.flags.IgnoreFileMismatchDataSources
                                        ELSE input.flags.IgnoreFileMissingDataSources
    ELSE IF f.category = "MismatchFile" THEN input.flags.IgnoreFileMismatchResources
                                        ELSE input.flags.IgnoreFileMissingResources

\* A finding its own kind's and category's ignore list removes.
Suppressed(f) == f.msg \in { "extra", "missing" } /\ f.id \in IgnoreSet(IgnoreOptionOf(f))

\* The engine's result on the same run with the four ignore lists empty.
Unfiltered ==
    CheckRunWith(CheckOptions(config, [locals EXCEPT !.ignoreFileMismatchDataSources = << >>,
                                                     !.ignoreFileMismatchResources = << >>,
                                                     !.ignoreFileMissingDataSources = << >>,
                                                     !.ignoreFileMissingResources = << >>]))

\* C10: each ignore list holds the identifiers its option names (none for the
\* empty option), reaches the reconciliation of its own kind and category only,
\* and the findings of a run are those of the run without ignore lists less
\* the ones a list of their own kind and category names.
IgnoreListsIsolated ==
    /\ ListsSplit =>
        /\ Range(locals.ignoreFileMismatchDataSources) = IgnoreSet(input.flags.IgnoreFileMismatchDataSources)
        /\ Range(locals.ignoreFileMismatchResources) = IgnoreSet(input.flags.IgnoreFileMismatchResources)
        /\ Range(locals.ignoreFileMissingDataSources) = IgnoreSet(input.flags.IgnoreFileMissingDataSources)
        /\ Range(locals.ignoreFileMissingResources) = IgnoreSet(input.flags.IgnoreFileMissingResources)
    /\ OptionsBuilt =>
        /\ checkOpts.DataSourceFileMismatch.IgnoreFileMismatch = locals.ignoreFileMismatchDataSources
        /\ checkOpts.DataSourceFileMismatch.IgnoreFileMissing = locals.ignoreFileMissingDataSources
        /\ checkOpts.ResourceFileMismatch.IgnoreFileMismatch = locals.ignoreFileMismatchResources
        /\ checkOpts.ResourceFileMismatch.IgnoreFileMissing = locals.ignoreFileMissingResources
    /\ Checked => result.findings = { f \in Unfiltered.findings : ~Suppressed(f) }

\* A resource ignore list removes a resource finding and leaves the data-source
\* findings on the same identifiers.
IgnoreListsWitness ==
    /\ Checked
    /\ input.flags.IgnoreFileMismatchResources = << "a", ",", "b" >>
    /\ \E f \in Unfiltered.findings : Suppressed(f) /\ f.kind = ResourceTypeResource
    /\ \E f \in result.findings : f.category = "MismatchFile" /\ f.kind = ResourceTypeDataSource /\ f.id = << "a" >>
    /\ \E f \in result.findings : f.category = "MissingFile" /\ f.kind = ResourceTypeDataSource /\ f.id = << "b" >>

====
